---- MODULE Spec2Model ----
(***************************************************************************)
(* A model of the TPC-H benchmark driver: Benchmark (benchmark.py),        *)
(* QueryStream (query_stream.py) and RefreshPair (refresh_pair.py).        *)
(*                                                                         *)
(* Processes.  The main process runs the Benchmark methods and, inside     *)
(* run_power_test, the power stream.  run_throughput_test forks one child  *)
(* process per throughput stream and one for the refresh stream.  Every    *)
(* _run_refresh_function_1/_2 call forks one process per replica.          *)
(*                                                                         *)
(* Time.  Every process has its own reading of the wall clock (clk): a     *)
(* database call advances the clock of the process that makes it by the    *)
(* latency of that call, a forked process starts at its parent's clock and *)
(* a join brings the parent's clock up to the joined process's clock.      *)
(* time.time() in a process returns that process's clk.                    *)
(*                                                                         *)
(* Python lists are functions on 0..len-1, None is the value None; the     *)
(* lists of refresh data, which the code only iterates, are sequences.     *)
(*                                                                         *)
(* Specifications.  Spec is run_power_test, run_throughput_test and        *)
(* get_results called in this order on a Benchmark whose attributes hold   *)
(* streams built by QueryStream.__init__ (Benchmark.__init__ itself raises *)
(* and builds none, see SpecParts); SpecLive is Spec without database      *)
(* errors; SpecStream is one QueryStream called on its own; SpecParts is   *)
(* the Benchmark(...) call of run.py and Benchmark.__init__, a Connection, *)
(* a RefreshPair with its rows and statements, and the two metric          *)
(* functions, each exercised on its own.                                   *)
(***************************************************************************)
EXTENDS Integers, Sequences, FiniteSets, TLC

\* range(22) in _run_query_set and the 22 slots of query_times
NumQueries == 22

\* the largest n_query_streams the inputs range over
MaxStreams == 1

\* the number of database replicas
NumReplicas == 2

\* the largest num_refresh_pairs of a stream built on its own
MaxPairs == 2

\* Python's None, for a timestamp or a duration that was never set
None == -1

VARIABLES
    n_query_streams,     \* Benchmark.n_query_streams
    scale_factor,        \* Benchmark.scale_factor
    routes,              \* the routing table handed to every stream
    lat,                 \* the latencies of the database calls (environment)
    mainpc,              \* the main process's position in run.py / Benchmark
    k,                   \* the index of the start loop and of the join loop
    streams,             \* the QueryStream objects, by stream number
    units,               \* the refresh-pair processes of a stream, by replica
    refresh_time_queue,  \* QueryStream.refresh_time_queue, by stream number
    timer_queue,         \* Benchmark.timer_queue
    emitted,             \* history: the number of samples each stream has put
    results,             \* the outcome of Benchmark.get_results
    args,                \* the arguments an object exercised on its own is given
    connection,          \* a Connection object exercised on its own
    refresh_pair,        \* a RefreshPair object exercised on its own
    trace                \* history: the calls made on these objects

vars == <<n_query_streams, scale_factor, routes, lat, mainpc, k, streams, units,
          refresh_time_queue, timer_queue, emitted, results,
          args, connection, refresh_pair, trace>>

\* the objects exercised on their own: no Benchmark or QueryStream method
\* reads or writes them
parts == <<args, connection, refresh_pair, trace>>

inputs == <<n_query_streams, scale_factor, routes, lat>>

Replicas == 0 .. NumReplicas - 1
Slots == 0 .. NumQueries - 1

Max(S) == CHOOSE x \in S : \A y \in S : y <= x
Min(S) == CHOOSE x \in S : \A y \in S : x <= y
Range(f) == {f[x] : x \in DOMAIN f}

----------------------------------------------------------------------------
(* Inputs *)

\* A Python list from a tuple: index 0 is the tuple's first element.
List(tuple) == [p \in 0 .. Len(tuple) - 1 |-> tuple[p + 1]]

\* The stream orders of tpc_const.QS_ORDER, one permutation of 1..22 per
\* stream index: the first rows of the table (TPC-H, appendix A).
QS_ORDER ==
    List(<< List(<<14, 2, 9, 20, 6, 17, 18, 8, 21, 13, 3, 22, 16, 4, 11, 15, 1, 10, 19, 5, 7, 12>>),
            List(<<21, 3, 18, 5, 11, 7, 6, 20, 17, 12, 16, 15, 13, 10, 2, 8, 14, 19, 9, 22, 1, 4>>),
            List(<<6, 17, 14, 16, 19, 10, 9, 2, 15, 8, 5, 22, 12, 7, 13, 18, 1, 4, 20, 3, 11, 21>>),
            List(<<8, 5, 4, 6, 17, 7, 1, 18, 22, 14, 9, 10, 15, 11, 20, 2, 21, 19, 13, 16, 12, 3>>) >>)

\* Orders for a stream built on its own: rows of the table, 1..22 as it
\* stands, 22..1, and a rotation.
Orders ==
    {QS_ORDER[j] : j \in DOMAIN QS_ORDER}
        \cup { [p \in Slots |-> p + 1],
               [p \in Slots |-> NumQueries - p],
               [p \in Slots |-> ((p + 7) % NumQueries) + 1] }

\* Routing tables: 22 entries, each the index of a replica.
RoundRobin == [e \in Slots |-> e % NumReplicas]

RouteTables ==
    { [e \in Slots |-> 0],
      RoundRobin,
      [e \in Slots |-> (NumReplicas - 1) - ((e \div 2) % NumReplicas)] }

\* What the database calls cost: a query by its slot and replica, the set-up
\* of a refresh function (connecting, SET CONSTRAINTS) and its timed part by
\* replica; the timed part of refresh pair p, which has a data slice of its
\* own, costs p * slice more.
Staggered ==
    [query |-> [e \in Slots |-> [r \in Replicas |-> e + 1 + r]],
     setup |-> [r \in Replicas |-> r],
     rf1   |-> [r \in Replicas |-> r + 1],
     rf2   |-> [r \in Replicas |-> r + 2],
     slice |-> 1]

Latencies ==
    { Staggered,
      [query |-> [e \in Slots |-> [r \in Replicas |-> 1]],
       setup |-> [r \in Replicas |-> (NumReplicas - 1) - r],
       rf1   |-> [r \in Replicas |-> 2 * r + 1],
       rf2   |-> [r \in Replicas |-> 2 * r + 2],
       slice |-> 2] }

----------------------------------------------------------------------------
(* QueryStream.__init__ *)

\* the process that runs run.py and Benchmark; the process that
\* run_throughput_test forks for stream s is process s
MainProcess == 0

PowerStream == 0
RefreshStream == n_query_streams + 1
ThroughputStreams == 1 .. n_query_streams
StreamIds == 0 .. n_query_streams + 1
RefreshingStreams == {PowerStream, RefreshStream}

\* Connection.__init__: psycopg.connect gives the session to the replica,
\* which is named here by the replica's index
Connection(replica) == [replica |-> replica, _connection |-> replica]

\* Connection.conn: the session, or None (after logging an error) once the
\* handle is closed; it raises nothing
conn(c) == IF c._connection # None THEN c._connection ELSE None

\* Connection.close
close(c) == IF c._connection # None THEN [c EXCEPT !._connection = None] ELSE c

\* .cursor() on what conn() returned: None has no attribute cursor
cursor(session) ==
    IF session = None THEN [exc |-> "AttributeError", value |-> None]
    ELSE [exc |-> "no", value |-> session]

\* the cursor object c.conn().cursor() gives on an open handle, and its close()
Cursor(c) == [session |-> cursor(conn(c)).value, closed |-> FALSE]
cursor_close(cur) == [cur EXCEPT !.closed = TRUE]

\* the handles a unit has opened, as they are when it ends: none before it
\* has run
NoHandles == [connections |-> <<>>, cursors |-> <<>>]

\* the number of handles of a stream that are open
OpenHandles(st) ==
    Cardinality({r \in Replicas : st.connections[r]._connection # None})
    + Cardinality({r \in Replicas : ~st.cursors[r].closed})

\* The object QueryStream.__init__ builds.  open: its connections and cursors
\* are open; opened_by: the process that ran __init__ and so opened them;
\* pid: the process that runs the stream's methods.  issued, started and
\* completed are history: the statements executed, the refresh functions
\* started (pair, function) and the units that completed (pair, function,
\* replica); unit_times and read are history too: the records the units have
\* put and, for each _run_refresh_function_1/_2 call that has returned, how
\* many records it read and which; times is the list the gets of the call
\* in progress have filled so far;
\* open_at_put is the number of its handles that were open when it put its
\* sample on timer_queue (None before).
QueryStream(num, order, num_refresh_pairs) ==
    [ num               |-> num,
      order             |-> order,
      num_refresh_pairs |-> num_refresh_pairs,
      connections       |-> [r \in Replicas |-> Connection(r)],
      cursors           |-> [r \in Replicas |-> Cursor(Connection(r))],
      open              |-> TRUE,
      open_at_put       |-> None,
      opened_by         |-> MainProcess,
      pid               |-> MainProcess,
      issued            |-> <<>>,
      started           |-> <<>>,
      completed         |-> {},
      unit_times        |-> {},
      read              |-> <<>>,
      times             |-> <<>>,
      start_time        |-> None,
      query_times       |-> [e \in Slots |-> None],
      refresh_times     |-> [x \in 0 .. 1 |-> None],
      end_time          |-> None,
      mode              |-> "None",
      pc                |-> "idle",
      i                 |-> 0,
      pair              |-> 0,
      clk               |-> 0 ]

\* The streams the methods of Benchmark work on: power_stream is stream 0
\* with QS_ORDER[0], refresh_stream is stream n + 1 with an empty order,
\* throughput_streams[i - 1] is stream i with QS_ORDER[i % 100], as the calls
\* of Benchmark.__init__ number and order them.  Those calls leave out
\* num_refresh_pairs and raise (Benchmark__init__ below), so no Benchmark
\* comes out of the constructor; the methods are followed on an object whose
\* streams QueryStream.__init__ has built, and the number of refresh pairs
\* of each role is an input.
BenchmarkStreams(n, power, refresh, throughput) ==
    [s \in 0 .. n + 1 |->
        IF s = 0 THEN QueryStream(0, QS_ORDER[0], power)
        ELSE IF s = n + 1 THEN QueryStream(n + 1, <<>>, refresh)
        ELSE QueryStream(s, QS_ORDER[s % 100], throughput)]

\* the num_refresh_pairs the streams of a Benchmark are built with, none or
\* one: run_power reads refresh_pairs[0] only (IndexError when there is
\* none), run_throughput reads no refresh pair, run_refresh has no turn of
\* its loop or one; run_refresh with more turns is followed in SpecStream
RolePairs == 0 .. 1

\* no object is exercised on its own
NoParts ==
    /\ args = <<>>
    /\ connection = <<>>
    /\ refresh_pair = <<>>
    /\ trace = <<>>

Init ==
    /\ n_query_streams \in 0 .. MaxStreams
    /\ scale_factor = 1
    /\ routes = RoundRobin
    /\ lat = Staggered
    /\ mainpc = "run_power_test"
    /\ k = 0
    /\ \E power \in RolePairs, refresh \in RolePairs, throughput \in RolePairs :
          streams = BenchmarkStreams(n_query_streams, power, refresh, throughput)
    /\ units = [s \in {0, n_query_streams + 1} |->
                    [r \in Replicas |-> [pc |-> "none", target |-> 0, clk |-> 0,
                                         handles |-> NoHandles]]]
    /\ refresh_time_queue = [s \in 0 .. n_query_streams + 1 |-> <<>>]
    /\ timer_queue = <<>>
    /\ emitted = [s \in 0 .. n_query_streams + 1 |-> 0]
    /\ results = [kind |-> "none"]
    /\ NoParts

----------------------------------------------------------------------------
(* QueryStream: the control flow of run_power, run_throughput, run_refresh *)

\* run_refresh's loop: the first statement of the body, or _finalise when
\* range(num_refresh_pairs) is exhausted
RefreshLoop(st, pair) ==
    IF pair < st.num_refresh_pairs
    THEN [st EXCEPT !.pc = "rf1_start", !.pair = pair]
    ELSE [st EXCEPT !.pc = "finalise"]

\* AfterRF1 as it would be if run_power ran both refresh functions first
AfterRF1_pair_first(st) ==
    [st EXCEPT !.pc = "rf2_start"]

\* what follows _run_refresh_function_1 in run_power and in run_refresh
AfterRF1(st) ==
    IF st.mode = "power"
    THEN [st EXCEPT !.pc = "queries", !.i = 0]
    ELSE [st EXCEPT !.pc = "rf2_start"]

\* what follows _run_query_set in run_power and in run_throughput
AfterQuerySet(st) ==
    IF st.mode = "power"
    THEN [st EXCEPT !.pc = "rf2_start"]
    ELSE [st EXCEPT !.pc = "finalise"]

\* AfterRF2 as it would be if run_refresh ran one refresh pair only
AfterRF2_once(st) ==
    [st EXCEPT !.pc = "finalise"]

\* what follows _run_refresh_function_2 in run_power and in run_refresh
AfterRF2(st) ==
    IF st.mode = "power"
    THEN [st EXCEPT !.pc = "finalise"]
    ELSE RefreshLoop(st, st.pair + 1)

\* An exception leaves run_*: the stream goes no further, its attributes
\* stay as they are
Raised(st) == [st EXCEPT !.pc = "failed"]

\* run_power up to its first call, _run_refresh_function_1(0), whose
\* self.refresh_pairs[0] raises IndexError in a stream built with no refresh
\* pair
run_power(st) ==
    IF st.num_refresh_pairs > 0
    THEN [st EXCEPT !.mode = "power", !.pc = "rf1_start", !.pair = 0]
    ELSE Raised([st EXCEPT !.mode = "power"])

\* run_throughput up to its first call: _run_query_set()
run_throughput(st) == [st EXCEPT !.mode = "throughput", !.pc = "queries", !.i = 0]

\* run_refresh up to the first turn of its loop
run_refresh(st) == RefreshLoop([st EXCEPT !.mode = "refresh"], 0)

\* the process of the stream has ended: run_* returned, or an exception left it
Terminated(st) == st.pc \in {"done", "failed"}

----------------------------------------------------------------------------
(* QueryStream._run_query_set: one iteration of the loop *)

\* execute as it would be if the queries ran in canonical order
execute_canonical(order, i) == i

\* execute = self.order[i] - 1
execute(order, i) == order[i] - 1

\* record_query_time as it would be if the slot were the loop index
record_query_time_by_position(query_times, order, i, tic, toc) ==
    [query_times EXCEPT ![i] = toc - tic]

\* self.query_times[execute] = toc - tic
record_query_time(query_times, order, i, tic, toc) ==
    [query_times EXCEPT ![execute(order, i)] = toc - tic]

\* route as it would be if the table were read at the loop index
route_by_position(rts, order, i) == rts[i]

\* the replica whose cursor gets the statement
route(rts, order, i) == rts[execute(order, i)]

_run_query_set(s) ==
    /\ streams[s].pc = "queries"
    /\ streams[s].i < NumQueries
    /\ LET st      == streams[s]
           e       == execute(st.order, st.i)
           replica == route(routes, st.order, st.i)
           tic     == st.clk
           toc     == st.clk + lat.query[e][replica]
           timed   == [st EXCEPT
                          !.query_times = record_query_time(st.query_times, st.order, st.i, tic, toc),
                          !.issued = Append(@, [replica |-> replica, query |-> e + 1,
                                                tic |-> tic, toc |-> toc,
                                                by |-> st.pid,
                                                opened_by |-> st.opened_by]),
                          !.clk = toc,
                          !.i = st.i + 1]
       IN streams' = [streams EXCEPT ![s] =
                         IF st.i + 1 = NumQueries THEN AfterQuerySet(timed) ELSE timed]
    /\ UNCHANGED <<inputs, parts, mainpc, k, units, refresh_time_queue, timer_queue,
                   emitted, results>>

\* cursor.execute raises (a statement error): the exception leaves
\* _run_query_set and run_*, and ends the process the stream runs in
StatementError(s) ==
    /\ streams[s].pc = "queries"
    /\ streams[s].i < NumQueries
    /\ streams' = [streams EXCEPT ![s] = Raised(@)]
    /\ mainpc' = IF s = PowerStream THEN "crashed" ELSE mainpc
    /\ UNCHANGED <<inputs, parts, k, units, refresh_time_queue, timer_queue, emitted, results>>

----------------------------------------------------------------------------
(* RefreshPair.run_refresh_function_1 / _2: one process per replica *)

refresh_record(clk, setup, work) ==
    [start |-> clk + setup, end |-> clk + setup + work]

\* run_refresh_function_1: order_connection, order_cursor,
\* lineitem_connection, lineitem_cursor, each closed after the put
RF1Handles(replica) ==
    LET order_connection    == Connection(replica)
        order_cursor        == Cursor(order_connection)
        lineitem_connection == Connection(replica)
        lineitem_cursor     == Cursor(lineitem_connection)
    IN [connections |-> <<close(order_connection), close(lineitem_connection)>>,
        cursors     |-> <<cursor_close(order_cursor), cursor_close(lineitem_cursor)>>]

\* run_refresh_function_2: connection, and the cursor the with statement
\* closes; connection.close() after the put
RF2Handles(replica) ==
    LET connection_ == Connection(replica)
        cur         == Cursor(connection_)
    IN [connections |-> <<close(connection_)>>,
        cursors     |-> <<cursor_close(cur)>>]

\* history: the record a unit has put, with the unit it comes from
UnitTime(pair, f, r, rec) ==
    [pair |-> pair, f |-> f, replica |-> r, start |-> rec.start, end |-> rec.end]

run_refresh_function_1(s, r) ==
    /\ units[s][r].pc = "running"
    /\ units[s][r].target = 1
    /\ LET pair == streams[s].pair
           rec  == refresh_record(units[s][r].clk, lat.setup[r],
                                  lat.rf1[r] + pair * lat.slice)
       IN /\ refresh_time_queue' = [refresh_time_queue EXCEPT ![s] = Append(@, rec)]
          /\ units' = [units EXCEPT ![s][r].pc = "done", ![s][r].clk = rec.end,
                                    ![s][r].handles = RF1Handles(r)]
          /\ streams' = [streams EXCEPT
                            ![s].completed = @ \cup {<<pair, 1, r>>},
                            ![s].unit_times = @ \cup {UnitTime(pair, 1, r, rec)}]
    /\ UNCHANGED <<inputs, parts, mainpc, k, timer_queue, emitted, results>>

run_refresh_function_2(s, r) ==
    /\ units[s][r].pc = "running"
    /\ units[s][r].target = 2
    /\ LET pair == streams[s].pair
           rec  == refresh_record(units[s][r].clk, lat.setup[r],
                                  lat.rf2[r] + pair * lat.slice)
       IN /\ refresh_time_queue' = [refresh_time_queue EXCEPT ![s] = Append(@, rec)]
          /\ units' = [units EXCEPT ![s][r].pc = "done", ![s][r].clk = rec.end,
                                    ![s][r].handles = RF2Handles(r)]
          /\ streams' = [streams EXCEPT
                            ![s].completed = @ \cup {<<pair, 2, r>>},
                            ![s].unit_times = @ \cup {UnitTime(pair, 2, r, rec)}]
    /\ UNCHANGED <<inputs, parts, mainpc, k, timer_queue, emitted, results>>

\* the calls of a unit that can raise: psycopg.connect of the first and of the
\* second Connection, SET CONSTRAINTS, and the COPY block with the commit that
\* ends the transaction (run_refresh_function_1); psycopg.connect and the
\* DELETE loop (run_refresh_function_2)
RaisePoints(f) ==
    IF f = 1 THEN {"connect", "connect lineitem", "set", "copy"}
    ELSE {"connect", "delete"}

\* the handles a unit has opened when the call at `at` raises.  Nothing after
\* the call runs, so no close() of the unit does; the cursor of
\* run_refresh_function_2 is closed by the with statement the exception leaves
RaisedHandles(f, replica, at) ==
    LET c == Connection(replica)
    IN IF at = "connect" THEN NoHandles
       ELSE IF at = "connect lineitem"
            THEN [connections |-> <<c>>, cursors |-> <<Cursor(c)>>]
       ELSE IF f = 1
            THEN [connections |-> <<c, c>>, cursors |-> <<Cursor(c), Cursor(c)>>]
       ELSE [connections |-> <<c>>, cursors |-> <<cursor_close(Cursor(c))>>]

\* the time the calls before the one that raises have taken; the call that
\* raises takes none.  setup is the time from the start of the unit to
\* start_time and work the time from start_time to end_time: a call before
\* start_time raises with none or all of setup spent, a call after it with
\* none or all of work spent
RaisedAfter(at, setup, work) ==
    IF at = "connect" THEN {0}
    ELSE IF at \in {"connect lineitem", "set"} THEN {0, setup}
    ELSE {setup, setup + work}

\* a call of the unit raises: the process ends before its timer_queue.put and
\* before its close() calls
RefreshError(s, r) ==
    /\ units[s][r].pc = "running"
    /\ LET f     == units[s][r].target
           setup == lat.setup[r]
           work  == (IF f = 1 THEN lat.rf1[r] ELSE lat.rf2[r])
                       + streams[s].pair * lat.slice
       IN \E at \in RaisePoints(f) :
             \E spent \in RaisedAfter(at, setup, work) :
                units' = [units EXCEPT ![s][r].pc = "failed",
                                       ![s][r].clk = @ + spent,
                                       ![s][r].handles = RaisedHandles(f, r, at)]
    /\ UNCHANGED <<inputs, parts, mainpc, k, streams, refresh_time_queue, timer_queue,
                   emitted, results>>

----------------------------------------------------------------------------
(* QueryStream._run_refresh_function_1 / _2 *)

\* StartUnits as it would be if the stream went on without waiting for the
\* units it has started
StartUnits_no_wait(s, f) ==
    /\ streams[s].pc = (IF f = 1 THEN "rf1_start" ELSE "rf2_start")
    /\ units' = [units EXCEPT ![s] =
                    [r \in Replicas |-> [pc |-> "running", target |-> f,
                                         clk |-> streams[s].clk,
                                         handles |-> NoHandles]]]
    /\ streams' = [streams EXCEPT ![s] =
                      LET st == [@ EXCEPT !.started = Append(@, <<streams[s].pair, f>>)]
                      IN IF f = 1 THEN AfterRF1(st) ELSE AfterRF2(st)]
    /\ UNCHANGED <<inputs, parts, mainpc, k, refresh_time_queue, timer_queue, emitted,
                   results>>

\* processes = [Process(...) for r in self.refresh_pairs[i]]; [p.start() ...]
StartUnits(s, f) ==
    /\ streams[s].pc = (IF f = 1 THEN "rf1_start" ELSE "rf2_start")
    /\ units' = [units EXCEPT ![s] =
                    [r \in Replicas |-> [pc |-> "running", target |-> f,
                                         clk |-> streams[s].clk,
                                         handles |-> NoHandles]]]
    /\ streams' = [streams EXCEPT
                      ![s].pc = (IF f = 1 THEN "rf1_join" ELSE "rf2_join"),
                      ![s].started = Append(@, <<streams[s].pair, f>>)]
    /\ UNCHANGED <<inputs, parts, mainpc, k, refresh_time_queue, timer_queue, emitted,
                   results>>

\* [p.join() for p in processes]: returns once every unit has ended
JoinUnits(s, f) ==
    /\ streams[s].pc = (IF f = 1 THEN "rf1_join" ELSE "rf2_join")
    /\ \A r \in Replicas : units[s][r].pc \in {"done", "failed"}
    /\ streams' = [streams EXCEPT
                      ![s].pc = (IF f = 1 THEN "rf1_get" ELSE "rf2_get"),
                      ![s].clk = Max({@} \cup {units[s][r].clk : r \in Replicas})]
    /\ UNCHANGED <<inputs, parts, mainpc, k, units, refresh_time_queue, timer_queue,
                   emitted, results>>

\* times = [self.refresh_time_queue.get() for _ in processes]: one get per
\* process, each blocking until the queue holds a record, which it takes
CanGetTimes(s) == refresh_time_queue[s] # <<>>
GetTimes(queue) == Head(queue)

\* AfterGetTimes as it would be if a get left the record on the queue
AfterGetTimes_peek(queue) == queue

AfterGetTimes(queue) == Tail(queue)

\* len(processes): one process per RefreshPair of self.refresh_pairs[i], one
\* RefreshPair per replica
NumProcessesOf(st) == NumReplicas

\* history: the call of _run_refresh_function_f for the current pair has read
\* these records
Read(st, f, times) ==
    [st EXCEPT !.read = Append(@, [pair |-> st.pair, f |-> f,
                                   count |-> Len(times), times |-> Range(times)])]

min_start(times) == Min({times[j].start : j \in 1 .. Len(times)})
max_end(times) == Max({times[j].end : j \in 1 .. Len(times)})

\* record_rf1 as it would be if every repetition set self.start_time
record_rf1_overwrite(st, times) ==
    [st EXCEPT !.start_time = min_start(times),
               !.refresh_times[0] = max_end(times) - min_start(times)]

\* the assignments that end _run_refresh_function_1
record_rf1(st, times) ==
    [st EXCEPT !.start_time = IF @ = None THEN min_start(times) ELSE @,
               !.refresh_times[0] = max_end(times) - min_start(times)]

\* record_rf2 as it would be without self.end_time = end_time
record_rf2_no_end(st, times) ==
    [st EXCEPT !.refresh_times[1] = max_end(times) - min_start(times)]

\* record_rf2 as it would be if the durations of the repetitions were added up
record_rf2_accumulate(st, times) ==
    [st EXCEPT !.end_time = max_end(times),
               !.refresh_times[1] = IF @ = None
                                    THEN max_end(times) - min_start(times)
                                    ELSE @ + (max_end(times) - min_start(times))]

\* the assignments that end _run_refresh_function_2
record_rf2(st, times) ==
    [st EXCEPT !.end_time = max_end(times),
               !.refresh_times[1] = max_end(times) - min_start(times)]

\* _run_refresh_function_1: one get of the list comprehension; the last one
\* is followed by the rest of the function, up to its return
_run_refresh_function_1(s) ==
    /\ streams[s].pc = "rf1_get"
    /\ CanGetTimes(s)
    /\ LET st    == streams[s]
           times == Append(st.times, GetTimes(refresh_time_queue[s]))
       IN streams' = [streams EXCEPT ![s] =
                         IF Len(times) < NumProcessesOf(st)
                         THEN [st EXCEPT !.times = times]
                         ELSE AfterRF1(record_rf1(Read([st EXCEPT !.times = <<>>], 1, times),
                                                  times))]
    /\ refresh_time_queue' = [refresh_time_queue EXCEPT ![s] = AfterGetTimes(@)]
    /\ UNCHANGED <<inputs, parts, mainpc, k, units, timer_queue, emitted, results>>

\* _run_refresh_function_2: one get of the list comprehension; the last one
\* is followed by the rest of the function, up to its return
_run_refresh_function_2(s) ==
    /\ streams[s].pc = "rf2_get"
    /\ CanGetTimes(s)
    /\ LET st    == streams[s]
           times == Append(st.times, GetTimes(refresh_time_queue[s]))
       IN streams' = [streams EXCEPT ![s] =
                         IF Len(times) < NumProcessesOf(st)
                         THEN [st EXCEPT !.times = times]
                         ELSE AfterRF2(record_rf2(Read([st EXCEPT !.times = <<>>], 2, times),
                                                  times))]
    /\ refresh_time_queue' = [refresh_time_queue EXCEPT ![s] = AfterGetTimes(@)]
    /\ UNCHANGED <<inputs, parts, mainpc, k, units, timer_queue, emitted, results>>

----------------------------------------------------------------------------
(* QueryStream._finalise *)

TimingSample(st) ==
    [ mode  |-> st.mode,
      start |-> st.start_time,
      end   |-> st.end_time,
      qi    |-> st.query_times,
      ri    |-> st.refresh_times ]

\* for cursor in self.cursors: cursor.close(); for connection in
\* self.connections: connection.close()
close_handles(st) ==
    [st EXCEPT !.cursors     = [r \in Replicas |-> cursor_close(@[r])],
               !.connections = [r \in Replicas |-> close(@[r])],
               !.open        = FALSE]

\* _finalise as it would be if the stream could finalise again
_finalise_again(s) ==
    /\ streams[s].pc = "finalise"
    /\ LET closed == close_handles(streams[s])
       IN /\ streams' = [streams EXCEPT ![s] =
                            [closed EXCEPT !.open_at_put = OpenHandles(closed)]]
          /\ timer_queue' = Append(timer_queue, TimingSample(closed))
    /\ emitted' = [emitted EXCEPT ![s] = @ + 1]
    /\ UNCHANGED <<inputs, parts, mainpc, k, units, refresh_time_queue, results>>

\* _finalise as it would be if the sample were put before the handles are
\* closed
_finalise_put_first(s) ==
    /\ streams[s].pc = "finalise"
    /\ timer_queue' = Append(timer_queue, TimingSample(streams[s]))
    /\ streams' = [streams EXCEPT ![s] =
                      [close_handles(@) EXCEPT !.open_at_put = OpenHandles(streams[s]),
                                               !.pc = "done"]]
    /\ emitted' = [emitted EXCEPT ![s] = @ + 1]
    /\ UNCHANGED <<inputs, parts, mainpc, k, units, refresh_time_queue, results>>

_finalise(s) ==
    /\ streams[s].pc = "finalise"
    /\ LET closed == close_handles(streams[s])
       IN /\ streams' = [streams EXCEPT ![s] =
                            [closed EXCEPT !.open_at_put = OpenHandles(closed),
                                           !.pc = "done"]]
          /\ timer_queue' = Append(timer_queue, TimingSample(closed))
    /\ emitted' = [emitted EXCEPT ![s] = @ + 1]
    /\ UNCHANGED <<inputs, parts, mainpc, k, units, refresh_time_queue, results>>

----------------------------------------------------------------------------
(* The entry points of the streams *)

\* Benchmark.run_power_test calls power_stream.run_power in the main
\* process: an exception of run_power is an exception of the caller
run_power_test ==
    /\ mainpc = "run_power_test"
    /\ streams' = [streams EXCEPT ![PowerStream] = run_power(@)]
    /\ mainpc' = IF run_power(streams[PowerStream]).pc = "failed"
                 THEN "crashed" ELSE "power_test"
    /\ UNCHANGED <<inputs, parts, k, units, refresh_time_queue, timer_queue, emitted,
                   results>>

\* power_test_returns as it would be if run_power ran in a process of its
\* own that run_power_test did not wait for
power_test_returns_early ==
    /\ mainpc = "power_test"
    /\ mainpc' = "start"
    /\ k' = 0
    /\ UNCHANGED <<inputs, parts, streams, units, refresh_time_queue, timer_queue,
                   emitted, results>>

\* run_power has returned: run.py goes on to run_throughput_test
power_test_returns ==
    /\ mainpc = "power_test"
    /\ streams[PowerStream].pc = "done"
    /\ mainpc' = "start"
    /\ k' = 0
    /\ UNCHANGED <<inputs, parts, streams, units, refresh_time_queue, timer_queue,
                   emitted, results>>

\* the process of a throughput stream runs its target, stream.run_throughput
throughput_process(s) ==
    /\ s \in ThroughputStreams
    /\ streams[s].pc = "forked"
    /\ streams' = [streams EXCEPT ![s] = run_throughput(@)]
    /\ UNCHANGED <<inputs, parts, mainpc, k, units, refresh_time_queue, timer_queue,
                   emitted, results>>

\* the process of the refresh stream runs its target, refresh_stream.run_refresh
refresh_process(s) ==
    /\ s = RefreshStream
    /\ streams[s].pc = "forked"
    /\ streams' = [streams EXCEPT ![s] = run_refresh(@)]
    /\ UNCHANGED <<inputs, parts, mainpc, k, units, refresh_time_queue, timer_queue,
                   emitted, results>>

----------------------------------------------------------------------------
(* Benchmark.run_throughput_test *)

\* processes: the throughput streams in order, then the refresh stream
ProcessStream(j) == j + 1
NumProcesses == n_query_streams + 1

\* for process in processes: process.start()
start_process ==
    /\ mainpc = "start"
    /\ k < NumProcesses
    /\ streams' = [streams EXCEPT
                      ![ProcessStream(k)].pc = "forked",
                      ![ProcessStream(k)].pid = ProcessStream(k),
                      ![ProcessStream(k)].clk = streams[PowerStream].clk]
    /\ k' = IF k + 1 = NumProcesses THEN 0 ELSE k + 1
    /\ mainpc' = IF k + 1 = NumProcesses THEN "join" ELSE "start"
    /\ UNCHANGED <<inputs, parts, units, refresh_time_queue, timer_queue, emitted,
                   results>>

\* join_process as it would be if join did not wait for the process
join_process_nowait ==
    /\ mainpc = "join"
    /\ k < NumProcesses
    /\ k' = IF k + 1 = NumProcesses THEN 0 ELSE k + 1
    /\ mainpc' = IF k + 1 = NumProcesses THEN "get_results" ELSE "join"
    /\ UNCHANGED <<inputs, parts, streams, units, refresh_time_queue, timer_queue,
                   emitted, results>>

\* for process in processes: process.join()
join_process ==
    /\ mainpc = "join"
    /\ k < NumProcesses
    /\ Terminated(streams[ProcessStream(k)])
    /\ streams' = [streams EXCEPT
                      ![PowerStream].clk = Max({@, streams[ProcessStream(k)].clk})]
    /\ k' = IF k + 1 = NumProcesses THEN 0 ELSE k + 1
    /\ mainpc' = IF k + 1 = NumProcesses THEN "get_results" ELSE "join"
    /\ UNCHANGED <<inputs, parts, units, refresh_time_queue, timer_queue, emitted,
                   results>>

----------------------------------------------------------------------------
(* Benchmark.get_results *)

\* min() and max() of a Python list: a list of one element is never
\* compared, a comparison with None raises TypeError
py_min(xs) ==
    IF Len(xs) = 0 THEN [exc |-> "ValueError", val |-> None]
    ELSE IF Len(xs) = 1 THEN [exc |-> "no", val |-> xs[1]]
    ELSE IF \E j \in 1 .. Len(xs) : xs[j] = None THEN [exc |-> "TypeError", val |-> None]
    ELSE [exc |-> "no", val |-> Min(Range(xs))]

py_max(xs) ==
    IF Len(xs) = 0 THEN [exc |-> "ValueError", val |-> None]
    ELSE IF Len(xs) = 1 THEN [exc |-> "no", val |-> xs[1]]
    ELSE IF \E j \in 1 .. Len(xs) : xs[j] = None THEN [exc |-> "TypeError", val |-> None]
    ELSE [exc |-> "no", val |-> Max(Range(xs))]

\* the while loop: every sample of the queue is taken; the last power sample
\* is power_result (<<>> is None), the others are throughput_results
power_samples(queue) == SelectSeq(queue, LAMBDA x : x.mode = "power")
throughput_samples(queue) == SelectSeq(queue, LAMBDA x : x.mode # "power")

\* _power_result: (3600 * SF) / (product of qi0 and ri0) ** (1/24); the value
\* is kept as its numerator and the 24 factors under the root
_power_result(qi0, ri0) ==
    IF (\E e \in DOMAIN qi0 : qi0[e] = None) \/ (\E x \in DOMAIN ri0 : ri0[x] = None)
    THEN [exc |-> "TypeError"]
    ELSE IF (\E e \in DOMAIN qi0 : qi0[e] = 0) \/ (\E x \in DOMAIN ri0 : ri0[x] = 0)
    THEN [exc |-> "ZeroDivisionError"]
    ELSE [exc |-> "no", num |-> 3600 * scale_factor, qi |-> qi0, ri |-> ri0]

\* _throughput_result as it would be without the division by ts
_throughput_result_undivided(ts) ==
    IF ts = 0 THEN [exc |-> "ZeroDivisionError"]
    ELSE [exc |-> "no", num |-> n_query_streams * 22 * 3600 * scale_factor, den |-> 1]

\* _throughput_result: (n_query_streams * 22 * 3600 * SF) / ts, kept as a
\* fraction
_throughput_result(ts) ==
    IF ts = 0 THEN [exc |-> "ZeroDivisionError"]
    ELSE [exc |-> "no", num |-> n_query_streams * 22 * 3600 * scale_factor, den |-> ts]

Raises(e, queue) ==
    [kind |-> e, drained |-> Len(throughput_samples(queue))]

get_results_value(queue) ==
    LET power_results      == power_samples(queue)
        throughput_results == throughput_samples(queue)
        through_start == py_min([j \in 1 .. Len(throughput_results) |-> throughput_results[j].start])
        through_end   == py_max([j \in 1 .. Len(throughput_results) |-> throughput_results[j].end])
        power_result  == power_results[Len(power_results)]
        power_metric  == _power_result(power_result.qi, power_result.ri)
        elapsed       == through_end.val - through_start.val
        throughput_metric == _throughput_result(elapsed)
    IN  IF through_start.exc # "no" THEN Raises(through_start.exc, queue)
        ELSE IF through_end.exc # "no" THEN Raises(through_end.exc, queue)
        ELSE IF power_results = <<>> THEN Raises("TypeError", queue)
        ELSE IF power_metric.exc # "no" THEN Raises(power_metric.exc, queue)
        ELSE IF through_start.val = None \/ through_end.val = None
             THEN Raises("TypeError", queue)
        ELSE IF throughput_metric.exc # "no" THEN Raises(throughput_metric.exc, queue)
        ELSE [kind |-> "metrics",
              drained |-> Len(throughput_results),
              elapsed |-> elapsed,
              power_metric |-> power_metric,
              throughput_metric |-> throughput_metric]

get_results ==
    /\ mainpc = "get_results"
    /\ results' = get_results_value(timer_queue)
    /\ timer_queue' = <<>>
    /\ mainpc' = IF results'.kind = "metrics" THEN "returned" ELSE "raised"
    /\ UNCHANGED <<inputs, parts, k, streams, units, refresh_time_queue, emitted>>

----------------------------------------------------------------------------

Next ==
    \/ run_power_test
    \/ power_test_returns
    \/ start_process
    \/ join_process
    \/ get_results
    \/ \E s \in StreamIds : throughput_process(s)
    \/ \E s \in StreamIds : refresh_process(s)
    \/ \E s \in StreamIds : _run_query_set(s)
    \/ \E s \in StreamIds : StatementError(s)
    \/ \E s \in StreamIds : _finalise(s)
    \/ \E s \in RefreshingStreams, f \in 1 .. 2 : StartUnits(s, f)
    \/ \E s \in RefreshingStreams, f \in 1 .. 2 : JoinUnits(s, f)
    \/ \E s \in RefreshingStreams : _run_refresh_function_1(s)
    \/ \E s \in RefreshingStreams : _run_refresh_function_2(s)
    \/ \E s \in RefreshingStreams, r \in Replicas : run_refresh_function_1(s, r)
    \/ \E s \in RefreshingStreams, r \in Replicas : run_refresh_function_2(s, r)
    \/ \E s \in RefreshingStreams, r \in Replicas : RefreshError(s, r)

Spec == Init /\ [][Next]_vars

\* The run when every database call returns without error: no StatementError
\* and no RefreshError step.  Every process is scheduled as long as it can
\* take a step, and the steps left to take are finitely many, so weak
\* fairness of the next-state relation is what the operating system gives.
NextNoError ==
    \/ run_power_test
    \/ power_test_returns
    \/ start_process
    \/ join_process
    \/ get_results
    \/ \E s \in StreamIds : throughput_process(s)
    \/ \E s \in StreamIds : refresh_process(s)
    \/ \E s \in StreamIds : _run_query_set(s)
    \/ \E s \in StreamIds : _finalise(s)
    \/ \E s \in RefreshingStreams, f \in 1 .. 2 : StartUnits(s, f)
    \/ \E s \in RefreshingStreams, f \in 1 .. 2 : JoinUnits(s, f)
    \/ \E s \in RefreshingStreams : _run_refresh_function_1(s)
    \/ \E s \in RefreshingStreams : _run_refresh_function_2(s)
    \/ \E s \in RefreshingStreams, r \in Replicas : run_refresh_function_1(s, r)
    \/ \E s \in RefreshingStreams, r \in Replicas : run_refresh_function_2(s, r)

SpecLive == Init /\ [][NextNoError]_vars /\ WF_vars(NextNoError)

----------------------------------------------------------------------------
(* One QueryStream on its own: built by QueryStream.__init__ from an order, *)
(* a routing table and a number of refresh pairs, and run by a call of one  *)
(* of run_power, run_throughput, run_refresh in the calling process.        *)

InitStream ==
    /\ n_query_streams = 0
    /\ scale_factor = 1
    /\ routes \in RouteTables
    /\ lat \in Latencies
    /\ mainpc = "stream"
    /\ k = 0
    /\ \E order \in Orders, num_refresh_pairs \in 0 .. MaxPairs :
          streams = [s \in 0 .. 1 |-> QueryStream(s, order, num_refresh_pairs)]
    /\ units = [s \in 0 .. 1 |->
                    [r \in Replicas |-> [pc |-> "none", target |-> 0, clk |-> 0,
                                         handles |-> NoHandles]]]
    /\ refresh_time_queue = [s \in 0 .. 1 |-> <<>>]
    /\ timer_queue = <<>>
    /\ emitted = [s \in 0 .. 1 |-> 0]
    /\ results = [kind |-> "none"]
    /\ NoParts

\* stream.run_power()
call_run_power ==
    /\ mainpc = "stream"
    /\ streams' = [streams EXCEPT ![0] = run_power(@)]
    /\ mainpc' = IF run_power(streams[0]).pc = "failed" THEN "crashed" ELSE "called"
    /\ UNCHANGED <<inputs, parts, k, units, refresh_time_queue, timer_queue, emitted, results>>

\* stream.run_throughput()
call_run_throughput ==
    /\ mainpc = "stream"
    /\ streams' = [streams EXCEPT ![0] = run_throughput(@)]
    /\ mainpc' = "called"
    /\ UNCHANGED <<inputs, parts, k, units, refresh_time_queue, timer_queue, emitted, results>>

\* stream.run_refresh()
call_run_refresh ==
    /\ mainpc = "stream"
    /\ streams' = [streams EXCEPT ![0] = run_refresh(@)]
    /\ mainpc' = "called"
    /\ UNCHANGED <<inputs, parts, k, units, refresh_time_queue, timer_queue, emitted, results>>

NextStream ==
    \/ call_run_power
    \/ call_run_throughput
    \/ call_run_refresh
    \/ \E s \in StreamIds : _run_query_set(s)
    \/ \E s \in StreamIds : StatementError(s)
    \/ \E s \in StreamIds : _finalise(s)
    \/ \E s \in RefreshingStreams, f \in 1 .. 2 : StartUnits(s, f)
    \/ \E s \in RefreshingStreams, f \in 1 .. 2 : JoinUnits(s, f)
    \/ \E s \in RefreshingStreams : _run_refresh_function_1(s)
    \/ \E s \in RefreshingStreams : _run_refresh_function_2(s)
    \/ \E s \in RefreshingStreams, r \in Replicas : run_refresh_function_1(s, r)
    \/ \E s \in RefreshingStreams, r \in Replicas : run_refresh_function_2(s, r)
    \/ \E s \in RefreshingStreams, r \in Replicas : RefreshError(s, r)

SpecStream == InitStream /\ [][NextStream]_vars

----------------------------------------------------------------------------
(* The refresh data: rows are texts of fields separated by "|", a text is the *)
(* sequence of its fields and separators; the lists are sequences.            *)

\* the number of distinct order keys and the longest list of keys
MaxKeys == 2

\* the largest number of line items of an order
MaxLineitems == 2

Keys == {ToString(x) : x \in 1 .. MaxKeys}

\* rf2_data of a stream: a list of order keys
KeyLists == UNION {[1 .. m -> Keys] : m \in 0 .. MaxKeys}

OrderRow(key) == <<key, "|", "O">>
LineitemRow(key, b) == <<key, "|", ToString(b)>>

\* one record of rf1_data: {'order': row, 'lineitems': [row, ...]}
RF1Record(key, nl) ==
    [order |-> OrderRow(key), lineitems |-> [b \in 1 .. nl |-> LineitemRow(key, b)]]

\* rf1_data of a stream: one record per key of keys, record a with
\* (a + c) % (MaxLineitems + 1) line items
RF1Slice(keys, c) ==
    [a \in 1 .. Len(keys) |-> RF1Record(keys[a], (a + c) % (MaxLineitems + 1))]

----------------------------------------------------------------------------
(* Benchmark.__init__ as it calls QueryStream.__init__ *)

\* def __init__(self, num, replicas, queries, routes, order, rf1_data,
\*              rf2_data, num_refresh_pairs, timer_queue)
QueryStream__init__params ==
    <<"num", "replicas", "queries", "routes", "order", "rf1_data", "rf2_data",
      "num_refresh_pairs", "timer_queue">>

\* a call of QueryStream(...) with the positional arguments a: Python raises
\* TypeError unless every parameter gets an argument
QueryStream__init__(a) ==
    IF Len(a) # Len(QueryStream__init__params)
    THEN [exc |-> "TypeError"]
    ELSE [exc |-> "no", stream |-> QueryStream(a[1], a[5], a[8])]

\* def __init__(self, queries, rf1_data, rf2_data, replicas, routes, indexes,
\*              n_query_streams, scale_factor)
Benchmark__init__params ==
    <<"queries", "rf1_data", "rf2_data", "replicas", "routes", "indexes",
      "n_query_streams", "scale_factor">>

\* run.py: Benchmark(queries, rf1_data, rf2_data, replicas, routes, config,
\*                   num_query_streams)
main_arguments ==
    <<"queries", "rf1_data", "rf2_data", "replicas", "routes", "config",
      "num_query_streams">>

\* The constructor is called by run.py (main) or with one argument for each
\* of its parameters (Benchmark.__init__), scale_factor among them.
InitBenchmark ==
    /\ n_query_streams \in 0 .. MaxStreams
    /\ scale_factor = 1
    /\ routes = RoundRobin
    /\ lat = Staggered
    /\ mainpc \in {"main", "Benchmark.__init__"}
    /\ k = 0
    /\ streams = <<>>
    /\ units = <<>>
    /\ refresh_time_queue = <<>>
    /\ timer_queue = <<>>
    /\ emitted = <<>>
    /\ results = [kind |-> "none"]
    /\ \E keys \in KeyLists, c \in 0 .. MaxLineitems :
          args = [rf1_data |-> [x \in 0 .. n_query_streams |-> RF1Slice(keys, c)],
                  rf2_data |-> [x \in 0 .. n_query_streams |-> keys]]
    /\ connection = <<>>
    /\ refresh_pair = <<>>
    /\ trace = <<>>

\* run.py, benchmark = Benchmark(...): Python raises TypeError unless every
\* parameter of Benchmark.__init__ gets an argument
main ==
    /\ mainpc = "main"
    /\ IF Len(main_arguments) # Len(Benchmark__init__params)
       THEN /\ mainpc' = "main raised"
            /\ results' = [kind |-> "TypeError"]
       ELSE /\ mainpc' = "Benchmark.__init__"
            /\ UNCHANGED results
    /\ UNCHANGED <<inputs, parts, k, streams, units, refresh_time_queue, timer_queue,
                   emitted>>

\* Benchmark.__init__: the three QueryStream(...) calls, each with the eight
\* arguments the code passes; rf1_data[-1] is the last slice
Benchmark__init__ ==
    /\ mainpc = "Benchmark.__init__"
    /\ LET n       == n_query_streams
           power   == QueryStream__init__(
                          <<0, Replicas, "queries", routes, QS_ORDER[0],
                            args.rf1_data[0], args.rf2_data[0], "timer_queue">>)
           refresh == QueryStream__init__(
                          <<n + 1, Replicas, "queries", routes, <<>>,
                            args.rf1_data[n], args.rf2_data[n], "timer_queue">>)
           throughput(s) == QueryStream__init__(
                          <<s, Replicas, "queries", routes, QS_ORDER[s % 100],
                            args.rf1_data, args.rf2_data, "timer_queue">>)
           raised  == \/ power.exc # "no"
                      \/ refresh.exc # "no"
                      \/ \E s \in 1 .. n : throughput(s).exc # "no"
       IN IF raised
          THEN /\ mainpc' = "Benchmark.__init__ raised"
               /\ results' = [kind |-> "TypeError"]
               /\ UNCHANGED streams
          ELSE /\ mainpc' = "constructed"
               /\ streams' = [s \in 0 .. n + 1 |->
                                 IF s = 0 THEN power.stream
                                 ELSE IF s = n + 1 THEN refresh.stream
                                 ELSE throughput(s).stream]
               /\ UNCHANGED results
    /\ UNCHANGED <<inputs, parts, k, units, refresh_time_queue, timer_queue, emitted>>

----------------------------------------------------------------------------
(* Connection: one object, and calls of its methods in any order *)

\* the largest number of calls made on an object exercised on its own
MaxCalls == 4

\* no Benchmark and no QueryStream has been built
NoStreams ==
    /\ k = 0
    /\ streams = <<>>
    /\ units = <<>>
    /\ timer_queue = <<>>
    /\ emitted = <<>>

InitConnection ==
    /\ n_query_streams = 0
    /\ scale_factor = 1
    /\ routes = RoundRobin
    /\ lat = Staggered
    /\ mainpc = "Connection"
    /\ NoStreams
    /\ refresh_time_queue = <<>>
    /\ results = [kind |-> "none"]
    /\ args = <<>>
    /\ connection \in {Connection(r) : r \in Replicas}
    /\ refresh_pair = <<>>
    /\ trace = <<>>

\* c.conn()
call_conn ==
    /\ mainpc = "Connection"
    /\ Len(trace) < MaxCalls
    /\ trace' = Append(trace, [op     |-> "conn",
                               closed |-> connection._connection = None,
                               exc    |-> "no",
                               value  |-> conn(connection)])
    /\ UNCHANGED <<inputs, mainpc, k, streams, units, refresh_time_queue, timer_queue,
                   emitted, results, args, connection, refresh_pair>>

\* c.conn().cursor()
call_conn_cursor ==
    /\ mainpc = "Connection"
    /\ Len(trace) < MaxCalls
    /\ trace' = Append(trace, [op     |-> "conn().cursor()",
                               closed |-> connection._connection = None,
                               exc    |-> cursor(conn(connection)).exc,
                               value  |-> cursor(conn(connection)).value])
    /\ UNCHANGED <<inputs, mainpc, k, streams, units, refresh_time_queue, timer_queue,
                   emitted, results, args, connection, refresh_pair>>

\* c.close()
call_close ==
    /\ mainpc = "Connection"
    /\ Len(trace) < MaxCalls
    /\ connection' = close(connection)
    /\ trace' = Append(trace, [op     |-> "close",
                               closed |-> connection._connection = None,
                               exc    |-> "no",
                               value  |-> None])
    /\ UNCHANGED <<inputs, mainpc, k, streams, units, refresh_time_queue, timer_queue,
                   emitted, results, args, refresh_pair>>

----------------------------------------------------------------------------
(* RefreshPair: one object with its data, and calls of run_refresh_function_1 *)
(* and run_refresh_function_2: the rows and the statements each call hands    *)
(* to its cursors.  What the database makes of them is not the program's.     *)

\* the index of the first "|" of a text, 0 if it has none
FirstSeparator(text) ==
    IF \E p \in 1 .. Len(text) : text[p] = "|"
    THEN Min({p \in 1 .. Len(text) : text[p] = "|"})
    ELSE 0

\* text.split('|'): the fields between the separators
RECURSIVE split(_)
split(text) ==
    LET p == FirstSeparator(text)
    IN IF p = 0 THEN <<text>>
       ELSE <<SubSeq(text, 1, p - 1)>> \o split(SubSeq(text, p + 1, Len(text)))

DeleteLineitem == "DELETE FROM LINEITEM WHERE L_ORDERKEY = "
DeleteOrders == "DELETE FROM ORDERS WHERE O_ORDERKEY = "

\* template % orderkey: the text of the template with the key in place of %s
format(template, orderkey) == <<template, orderkey>>

\* generate_queries_for_rf2 as it would be with the parent table first
RECURSIVE generate_queries_parent_first(_)
generate_queries_parent_first(rf2_data) ==
    IF rf2_data = <<>> THEN <<>>
    ELSE <<format(DeleteOrders, Head(rf2_data)),
           format(DeleteLineitem, Head(rf2_data))>>
             \o generate_queries_parent_first(Tail(rf2_data))

RECURSIVE generate_queries_for_rf2(_)
generate_queries_for_rf2(rf2_data) ==
    IF rf2_data = <<>> THEN <<>>
    ELSE <<format(DeleteLineitem, Head(rf2_data)),
           format(DeleteOrders, Head(rf2_data))>>
             \o generate_queries_for_rf2(Tail(rf2_data))

\* RefreshPair.__init__
RefreshPair(rf1_data, rf2_data, replica) ==
    [rf1_data |-> rf1_data,
     rf2_data |-> generate_queries_for_rf2(rf2_data),
     replica  |-> replica]

\* for query in self.rf2_data: cur.execute(query): the statements the cursor
\* is given, in the order it is given them
RECURSIVE execute_queries(_, _)
execute_queries(queries, executed) ==
    IF queries = <<>> THEN executed
    ELSE execute_queries(Tail(queries), Append(executed, Head(queries)))

CopyOrders == "COPY orders FROM STDIN"
CopyLineitem == "COPY lineitem FROM STDIN"

\* write_record as it would be with the line items before their order
write_record_lineitems_first(record) ==
    [b \in 1 .. Len(record.lineitems) |->
        [copy |-> CopyLineitem, row |-> split(record.lineitems[b])]]
      \o <<[copy |-> CopyOrders, row |-> split(record.order)]>>

\* one turn of the loop over self.rf1_data: the write_row calls, in order
write_record(record) ==
    <<[copy |-> CopyOrders, row |-> split(record.order)]>>
      \o [b \in 1 .. Len(record.lineitems) |->
            [copy |-> CopyLineitem, row |-> split(record.lineitems[b])]]

\* for orderkey in self.rf1_data: ...
RECURSIVE write_rows(_)
write_rows(rf1_data) ==
    IF rf1_data = <<>> THEN <<>>
    ELSE write_record(Head(rf1_data)) \o write_rows(Tail(rf1_data))

\* time.time() in the process that calls the pair
Clock == IF trace = <<>> THEN 0 ELSE trace[Len(trace)].end

InitRefreshPair ==
    /\ n_query_streams = 0
    /\ scale_factor = 1
    /\ routes = RoundRobin
    /\ lat = Staggered
    /\ mainpc = "RefreshPair"
    /\ NoStreams
    /\ refresh_time_queue = [s \in {0} |-> <<>>]
    /\ results = [kind |-> "none"]
    /\ \E keys \in KeyLists, c \in 0 .. MaxLineitems :
          args = [rf1_data |-> RF1Slice(keys, c), rf2_data |-> keys]
    /\ connection = <<>>
    /\ \E replica \in Replicas :
          refresh_pair = RefreshPair(args.rf1_data, args.rf2_data, replica)
    /\ trace = <<>>

\* RefreshPair.run_refresh_function_1(timer_queue), with its rows
RefreshPair_run_refresh_function_1 ==
    /\ mainpc = "RefreshPair"
    /\ Len(trace) < MaxCalls
    /\ LET r      == refresh_pair.replica
           writes == write_rows(refresh_pair.rf1_data)
           rec    == refresh_record(Clock, lat.setup[r], lat.rf1[r])
       IN /\ refresh_time_queue' = [refresh_time_queue EXCEPT ![0] = Append(@, rec)]
          /\ trace' = Append(trace, [op       |-> "rf1",
                                     executed |-> writes,
                                     start    |-> rec.start,
                                     end      |-> rec.end])
    /\ UNCHANGED <<inputs, mainpc, k, streams, units, timer_queue, emitted, results,
                   args, connection, refresh_pair>>

\* RefreshPair.run_refresh_function_2(timer_queue), with its statements
RefreshPair_run_refresh_function_2 ==
    /\ mainpc = "RefreshPair"
    /\ Len(trace) < MaxCalls
    /\ LET r   == refresh_pair.replica
           run == execute_queries(refresh_pair.rf2_data, <<>>)
           rec == refresh_record(Clock, lat.setup[r], lat.rf2[r])
       IN /\ refresh_time_queue' = [refresh_time_queue EXCEPT ![0] = Append(@, rec)]
          /\ trace' = Append(trace, [op       |-> "rf2",
                                     executed |-> run,
                                     start    |-> rec.start,
                                     end      |-> rec.end])
    /\ UNCHANGED <<inputs, mainpc, k, streams, units, timer_queue, emitted, results,
                   args, connection, refresh_pair>>

----------------------------------------------------------------------------
(* Benchmark._power_result and Benchmark._throughput_result called with *)
(* given durations                                                      *)

\* the durations a query or a refresh function is given, the elapsed times
\* and the scale factors
Durations == {0, 1, 2}
ElapsedTimes == {0, 1, 3600, 7200}
ScaleFactors == {1, 10}

\* product as it would be if the durations were added up
RECURSIVE product_as_sum(_, _)
product_as_sum(xs, n) ==
    IF n = 0 THEN 0 ELSE product_as_sum(xs, n - 1) + xs[n - 1]

\* res = 1; for x in xs: res = res * x, for the first n entries of the list
RECURSIVE product(_, _)
product(xs, n) ==
    IF n = 0 THEN 1 ELSE product(xs, n - 1) * xs[n - 1]

\* the float _power_result returns is m.num / radicand ** (1/24), with
\* radicand = query_res * refresh_res
power_value(m) ==
    IF m.exc # "no" THEN m
    ELSE [exc      |-> "no",
          num      |-> m.num,
          radicand |-> product(m.qi, NumQueries) * product(m.ri, 2)]

\* the float _throughput_result returns is m.num / m.den; None stands for a
\* quotient that is no integer
throughput_value(m) ==
    IF m.exc # "no" THEN m
    ELSE [exc   |-> "no",
          value |-> IF m.num % m.den = 0 THEN m.num \div m.den ELSE None]

InitMetrics ==
    /\ n_query_streams \in 0 .. MaxStreams + 1
    /\ scale_factor \in ScaleFactors
    /\ routes = RoundRobin
    /\ lat = Staggered
    /\ mainpc = "metrics"
    /\ NoStreams
    /\ refresh_time_queue = <<>>
    /\ results = [kind |-> "none"]
    /\ \E d1 \in Durations, d2 \in Durations, ts \in ElapsedTimes :
          args = [qi0 |-> [e \in Slots |-> d1],
                  ri0 |-> [x \in 0 .. 1 |-> d2],
                  ts  |-> ts]
    /\ connection = <<>>
    /\ refresh_pair = <<>>
    /\ trace = <<>>

\* self._power_result(qi0, ri0)
call_power_result ==
    /\ mainpc = "metrics"
    /\ results' = [kind  |-> "_power_result",
                   value |-> power_value(_power_result(args.qi0, args.ri0))]
    /\ UNCHANGED <<inputs, parts, mainpc, k, streams, units, refresh_time_queue,
                   timer_queue, emitted>>

\* self._throughput_result(ts)
call_throughput_result ==
    /\ mainpc = "metrics"
    /\ results' = [kind  |-> "_throughput_result",
                   value |-> throughput_value(_throughput_result(args.ts))]
    /\ UNCHANGED <<inputs, parts, mainpc, k, streams, units, refresh_time_queue,
                   timer_queue, emitted>>

----------------------------------------------------------------------------
(* The objects exercised on their own: Benchmark.__init__, a Connection, a *)
(* RefreshPair, the two metric functions                                   *)

InitParts ==
    \/ InitBenchmark
    \/ InitConnection
    \/ InitRefreshPair
    \/ InitMetrics

NextParts ==
    \/ main
    \/ Benchmark__init__
    \/ call_conn
    \/ call_conn_cursor
    \/ call_close
    \/ RefreshPair_run_refresh_function_1
    \/ RefreshPair_run_refresh_function_2
    \/ call_power_result
    \/ call_throughput_result

SpecParts == InitParts /\ [][NextParts]_vars

----------------------------------------------------------------------------
(* Properties *)

ForkedStreams == 1 .. n_query_streams + 1
Slot(q) == q - 1
AllSet(f) == \A x \in DOMAIN f : f[x] # None
AllNone(f) == \A x \in DOMAIN f : f[x] = None
QueueIndex == 1 .. Len(timer_queue)
Written(st) == {e \in Slots : st.query_times[e] # None}
Drained == mainpc \in {"returned", "raised"}

\* C1: get_results returns metrics only when exactly the N+1 samples of the
\* throughput phase (N throughput samples and the refresh sample) were
\* drained from timer_queue, never from fewer, and never drains more than N+1.
C1_Barrier ==
    /\ results.kind # "none" => results.drained <= n_query_streams + 1
    /\ results.kind = "metrics" => results.drained = n_query_streams + 1

\* C2: a stream has put one sample on timer_queue if its run has completed
\* and none otherwise, never two; when it puts the sample all its queries
\* have been executed and all its refresh-function units have ended and
\* been read.
C2_WorkFinished(s) ==
    LET st == streams[s]
    IN /\ st.mode \in {"power", "throughput"} =>
              Len(st.issued) = NumQueries /\ AllSet(st.query_times)
       /\ st.mode \in {"power", "refresh"} =>
              /\ refresh_time_queue[s] = <<>>
              /\ st.num_refresh_pairs > 0 =>
                    /\ st.pair = (IF st.mode = "power" THEN 0 ELSE st.num_refresh_pairs - 1)
                    /\ \A r \in Replicas :
                          units[s][r].pc = "done" /\ units[s][r].target = 2

C2_OneSample ==
    /\ \A s \in StreamIds :
          /\ emitted[s] = (IF streams[s].pc = "done" THEN 1 ELSE 0)
          /\ emitted[s] = 1 => C2_WorkFinished(s)
    /\ ~Drained => Len(timer_queue) = Cardinality({s \in StreamIds : emitted[s] > 0})

C2_Witness ==
    /\ n_query_streams = 1
    /\ mainpc = "get_results"
    /\ \A s \in StreamIds : emitted[s] = 1
    /\ Len(timer_queue) = 3

\* C3: run_throughput_test has started every one of its N+1 processes before
\* it joins any, and it has returned only if every one of them has ended; in
\* particular it has not returned while a process is blocked for ever.
C3_Blocked(s) ==
    /\ streams[s].pc \in {"rf1_get", "rf2_get"}
    /\ \E r \in Replicas : units[s][r].pc = "failed"

C3_JoinBarrier ==
    /\ mainpc = "join" => \A s \in ForkedStreams : streams[s].pc # "idle"
    /\ mainpc = "start" => \A s \in ForkedStreams : s > k => streams[s].pc = "idle"
    /\ mainpc \in {"get_results", "returned", "raised"} =>
          \A s \in ForkedStreams : Terminated(streams[s])
    /\ (\E s \in ForkedStreams : C3_Blocked(s)) => mainpc \in {"start", "join"}

C3_Witness ==
    /\ n_query_streams = 1
    /\ mainpc = "join"
    /\ k = 1
    /\ streams[1].pc = "done"
    /\ C3_Blocked(RefreshStream)

\* C4: while the power stream is running no throughput stream and no refresh
\* stream has been started, and once one has been started the power stream
\* has put its sample.
C4_PowerAlone ==
    /\ streams[PowerStream].pc \notin {"idle", "done", "failed"} =>
          \A s \in ForkedStreams : streams[s].pc = "idle"
    /\ (\E s \in ForkedStreams : streams[s].pc # "idle") =>
          emitted[PowerStream] = 1 /\ streams[PowerStream].pc = "done"

C4_Witness ==
    /\ n_query_streams = 1
    /\ streams[PowerStream].pc = "queries"
    /\ streams[PowerStream].i = 10

\* C5 as the spec states it: no query of the power stream is issued before
\* RF2 of iteration 0 has ended.
C5_QueriesAfterRF2 ==
    streams[PowerStream].issued # <<>> => streams[PowerStream].refresh_times[1] # None

\* C5, amended: the power stream runs RF1 of iteration 0, then the 22
\* queries, then RF2 of iteration 0, then finalises: no query is issued before
\* RF1 has ended, RF2 is not started before all 22 queries have been executed,
\* and the stream finalises only after RF2 has ended.
C5_RF1_Queries_RF2 ==
    LET st == streams[PowerStream]
        rf2_started == \/ st.pc \in {"rf2_join", "rf2_get", "finalise", "done"}
                       \/ \E r \in Replicas : units[PowerStream][r].target = 2
    IN /\ st.issued # <<>> => st.refresh_times[0] # None
       /\ st.pc = "queries" => st.refresh_times[0] # None /\ st.refresh_times[1] = None
       /\ rf2_started => Len(st.issued) = NumQueries
       /\ st.pc \in {"finalise", "done"} =>
             st.refresh_times[1] # None /\ Len(st.issued) = NumQueries

C5_Witness ==
    /\ streams[PowerStream].pc = "rf2_join"
    /\ Len(streams[PowerStream].issued) = NumQueries
    /\ streams[PowerStream].refresh_times[1] = None

\* C6: once a process of the throughput phase has failed, get_results
\* returns no metrics.
C6_FailureStalls ==
    (\E s \in ForkedStreams : streams[s].pc = "failed") => results.kind # "metrics"

\* C7: with N >= 1 throughput samples and the refresh sample drained,
\* get_results succeeds and the elapsed time is the refresh sample's end minus
\* its start.
C7_ElapsedIsRefreshWindow ==
    (Drained /\ n_query_streams >= 1 /\ results.drained = n_query_streams + 1) =>
        /\ results.kind = "metrics"
        /\ results.elapsed = streams[RefreshStream].end_time
                               - streams[RefreshStream].start_time

\* C8: every statement a stream has issued for canonical query q went to the
\* replica routes[q - 1], no query was issued twice, and a stream that has run
\* its query set has issued each of the 22 queries once.
C8_Routed ==
    \A s \in StreamIds :
        LET log == streams[s].issued
        IN /\ \A j \in 1 .. Len(log) :
                 /\ log[j].replica = routes[Slot(log[j].query)]
                 /\ \A j2 \in 1 .. Len(log) : log[j2].query = log[j].query => j2 = j
           /\ (streams[s].pc = "done" /\ streams[s].mode \in {"power", "throughput"}) =>
                 {log[j].query : j \in 1 .. Len(log)} = 1 .. NumQueries

C8_Witness ==
    \E s \in StreamIds :
        /\ streams[s].pc = "done"
        /\ streams[s].order[0] # 1
        /\ Len(streams[s].issued) = NumQueries
        /\ \E j \in 1 .. NumQueries : streams[s].issued[j].replica # routes[j - 1]

\* C9: in every power or throughput sample query_times[q - 1] is the duration
\* of canonical query q on its replica and no entry is null; while the query
\* set runs, every iteration has written a slot of its own.
C9_Duration(e) == lat.query[e][routes[e]]

C9_CanonicalTimes ==
    /\ \A j \in QueueIndex :
          timer_queue[j].mode \in {"power", "throughput"} =>
              \A e \in Slots : timer_queue[j].qi[e] = C9_Duration(e)
    /\ \A s \in StreamIds :
          streams[s].mode \in {"power", "throughput"} /\ streams[s].pc # "failed" =>
              /\ Cardinality(Written(streams[s])) = streams[s].i
              /\ \A e \in Written(streams[s]) : streams[s].query_times[e] = C9_Duration(e)

C9_Witness ==
    /\ \E j \in QueueIndex :
          /\ timer_queue[j].mode \in {"power", "throughput"}
          /\ AllSet(timer_queue[j].qi)
    /\ \E s \in StreamIds :
          /\ streams[s].pc = "done"
          /\ \E p \in Slots :
                C9_Duration(execute(streams[s].order, p)) # C9_Duration(p)

\* C10: a throughput sample has start, end and both refresh_times null and
\* all 22 query_times set; a power sample has all of them set; a refresh
\* sample of N >= 1 repetitions has start, end and both refresh_times set and
\* all 22 query_times null.
C10_Sample(x, num_refresh_pairs) ==
    /\ x.mode \in {"power", "throughput", "refresh"}
    /\ x.mode = "throughput" =>
          x.start = None /\ x.end = None /\ AllNone(x.ri) /\ AllSet(x.qi)
    /\ x.mode = "power" =>
          x.start # None /\ x.end # None /\ AllSet(x.ri) /\ AllSet(x.qi)
    /\ (x.mode = "refresh" /\ num_refresh_pairs >= 1) =>
          x.start # None /\ x.end # None /\ AllSet(x.ri) /\ AllNone(x.qi)

C10_FieldsByRole ==
    /\ \A s \in StreamIds :
          streams[s].pc = "done" =>
              C10_Sample(TimingSample(streams[s]), streams[s].num_refresh_pairs)
    /\ \A j \in QueueIndex :
          \E s \in StreamIds :
              streams[s].pc = "done" /\ timer_queue[j] = TimingSample(streams[s])

C10_Witness ==
    /\ n_query_streams >= 1
    /\ streams[RefreshStream].num_refresh_pairs >= 1
    /\ \E s \in ThroughputStreams :
          streams[s].num_refresh_pairs >= 1 /\ streams[s].pc = "done"
    /\ {timer_queue[j].mode : j \in QueueIndex} = {"power", "throughput", "refresh"}

\* The refresh schedule of a stream of n refresh pairs: RF1 then RF2 of pair
\* 0, then of pair 1, and so on.
C11_Schedule(n) == [j \in 1 .. 2 * n |-> <<(j - 1) \div 2, ((j - 1) % 2) + 1>>]

C11_CompletedOnEveryReplica(st, pf) ==
    \A r \in Replicas : <<pf[1], pf[2], r>> \in st.completed

\* C11: the refresh stream starts its refresh functions in the order RF1(0),
\* RF2(0), RF1(1), ..., RF2(N-1) and starts each only after the one before it
\* has completed on every replica; when it finalises it has run exactly N
\* repetitions, each on every replica.
C11_RefreshOrder ==
    \A s \in StreamIds :
        streams[s].mode = "refresh" =>
            LET st    == streams[s]
                log   == st.started
                sched == C11_Schedule(st.num_refresh_pairs)
            IN /\ Len(log) <= Len(sched)
               /\ \A j \in 1 .. Len(log) : log[j] = sched[j]
               /\ \A j \in 2 .. Len(log) : C11_CompletedOnEveryReplica(st, log[j - 1])
               /\ \A c \in st.completed : \E j \in 1 .. Len(log) : log[j] = <<c[1], c[2]>>
               /\ st.pc \in {"finalise", "done"} =>
                     /\ log = sched
                     /\ \A j \in 1 .. Len(log) : C11_CompletedOnEveryReplica(st, log[j])

C11_Witness ==
    \E s \in StreamIds :
        /\ streams[s].mode = "refresh"
        /\ streams[s].num_refresh_pairs = 2
        /\ streams[s].pc = "done"
        /\ Len(streams[s].started) = 4
        /\ Cardinality(streams[s].completed) = 4 * NumReplicas

\* C13: every statement of a stream is executed on a handle that was opened
\* by the process that executes it.
C13_OwnHandles ==
    \A s \in StreamIds :
        \A j \in 1 .. Len(streams[s].issued) :
            streams[s].issued[j].by = streams[s].issued[j].opened_by

\* C20: the k-th statement a stream has issued is query order[k], a statement
\* is issued only after the one before it has returned, no query is issued
\* twice, a stream that has run its query set has issued 22 statements, and a
\* throughput stream runs no refresh function.
C20_InOrder ==
    \A s \in StreamIds :
        (streams[s].mode \in {"power", "throughput"} /\ streams[s].pc # "failed") =>
            LET st  == streams[s]
                log == st.issued
            IN /\ Len(log) = st.i
               /\ \A j \in 1 .. Len(log) : log[j].query = st.order[j - 1]
               /\ \A j \in 2 .. Len(log) : log[j - 1].toc <= log[j].tic
               /\ \A j \in 1 .. Len(log) : log[j].tic <= log[j].toc
               /\ \A j, j2 \in 1 .. Len(log) : log[j].query = log[j2].query => j = j2
               /\ st.pc \in {"finalise", "done"} => Len(log) = NumQueries
               /\ st.mode = "throughput" =>
                     /\ st.started = <<>>
                     /\ st.completed = {}
                     /\ s \in DOMAIN units => \A r \in Replicas : units[s][r].pc = "none"

C20_Witness ==
    \E s \in StreamIds :
        /\ streams[s].mode = "throughput"
        /\ streams[s].pc = "done"
        /\ streams[s].order[0] # 1
        /\ Len(streams[s].issued) = NumQueries

\* C12: Benchmark.__init__ builds the power stream with 1 refresh pair, every
\* throughput stream with 0 and the refresh stream with N.
C12_CountsByRole ==
    mainpc \in {"constructed", "Benchmark.__init__ raised"} =>
        /\ mainpc = "constructed"
        /\ DOMAIN streams = 0 .. n_query_streams + 1
        /\ \A s \in DOMAIN streams :
              streams[s].num_refresh_pairs =
                  (IF s = 0 THEN 1 ELSE IF s = n_query_streams + 1 THEN n_query_streams ELSE 0)

\* C14: every call made on a Connection after close fails with UseAfterClose.
C14_UseAfterClose ==
    mainpc = "Connection" =>
        \A j \in 1 .. Len(trace) : trace[j].closed => trace[j].exc = "UseAfterClose"

\* C15: run_refresh_function_2 executes, for the keys in the order given, the
\* delete against LINEITEM and then the delete against ORDERS of each key:
\* two statements per key and no other.
C15_ChildBeforeParent ==
    mainpc = "RefreshPair" =>
        \A j \in 1 .. Len(trace) :
            trace[j].op = "rf2" =>
                LET keys     == args.rf2_data
                    executed == trace[j].executed
                IN /\ Len(executed) = 2 * Len(keys)
                   /\ \A p \in 1 .. Len(keys) :
                         /\ executed[2 * p - 1] = <<DeleteLineitem, keys[p]>>
                         /\ executed[2 * p] = <<DeleteOrders, keys[p]>>

C15_Witness ==
    /\ mainpc = "RefreshPair"
    /\ Len(args.rf2_data) = 2
    /\ args.rf2_data[1] # args.rf2_data[2]
    /\ \E j \in 1 .. Len(trace) : trace[j].op = "rf2" /\ Len(trace[j].executed) = 4

\* the number of rows run_refresh_function_1 writes for the records before
\* record a
RECURSIVE C16_Offset(_, _)
C16_Offset(data, a) ==
    IF a = 1 THEN 0
    ELSE C16_Offset(data, a - 1) + 1 + Len(data[a - 1].lineitems)

\* C16: run_refresh_function_1 writes, for the records in the order given,
\* the order's row and then the record's line-item rows in their order, each
\* row once and no other row.
C16_OrderBeforeLineitems ==
    mainpc = "RefreshPair" =>
        \A j \in 1 .. Len(trace) :
            trace[j].op = "rf1" =>
                LET data   == args.rf1_data
                    writes == trace[j].executed
                IN /\ Len(writes) = C16_Offset(data, Len(data) + 1)
                   /\ \A a \in 1 .. Len(data) :
                         LET at == C16_Offset(data, a) + 1
                         IN /\ writes[at] = [copy |-> CopyOrders,
                                             row  |-> split(data[a].order)]
                            /\ \A b \in 1 .. Len(data[a].lineitems) :
                                  writes[at + b] = [copy |-> CopyLineitem,
                                                    row  |-> split(data[a].lineitems[b])]

C16_Witness ==
    /\ mainpc = "RefreshPair"
    /\ Len(args.rf1_data) = 2
    /\ \E a \in 1 .. 2 : Len(args.rf1_data[a].lineitems) = 2
    /\ \E j \in 1 .. Len(trace) : trace[j].op = "rf1" /\ Len(trace[j].executed) >= 4

\* C18: with 22 query durations of 1, two refresh durations of 1 and scale
\* factor 1, _power_result returns 3600: 3600 over the 24th root of 1.
C18_PowerOfOnes ==
    ( /\ mainpc = "metrics"
      /\ results.kind = "_power_result"
      /\ scale_factor = 1
      /\ \A e \in Slots : args.qi0[e] = 1
      /\ \A x \in 0 .. 1 : args.ri0[x] = 1 ) =>
        results.value = [exc |-> "no", num |-> 3600, radicand |-> 1]

C18_Witness ==
    /\ mainpc = "metrics"
    /\ results.kind = "_power_result"
    /\ scale_factor = 1
    /\ \A e \in Slots : args.qi0[e] = 1
    /\ \A x \in 0 .. 1 : args.ri0[x] = 1

C19_Case ==
    /\ mainpc = "metrics"
    /\ results.kind = "_throughput_result"
    /\ n_query_streams = 2
    /\ scale_factor = 1
    /\ args.ts = 3600

\* C19 as the spec states it: with 2 streams, scale factor 1 and an elapsed
\* time of 3600, _throughput_result returns 158400.
C19_SpecValue ==
    C19_Case => results.value = [exc |-> "no", value |-> 158400]

\* C19, amended: with 2 streams, scale factor 1 and an elapsed time of 3600,
\* _throughput_result returns 44, the value of (2 * 22 * 3600 * 1) / 3600.
C19_Returns44 ==
    C19_Case => results.value = [exc |-> "no", value |-> 44]

C19_Witness == C19_Case

\* the records the units of refresh function f of repetition pair have put
UnitsOf(st, pair, f) == {u \in st.unit_times : u.pair = pair /\ u.f = f}
Starts(us) == {u.start : u \in us}
Ends(us) == {u.end : u \in us}

\* the sample a finished stream has put, while it is on timer_queue
SampleOf(st) ==
    {j \in QueueIndex : timer_queue[j].mode = st.mode /\ timer_queue[j] = TimingSample(st)}

\* C21: the start of a refresh stream, once set, is the earliest start of the
\* RF1 units of repetition 0 and the earliest start of all its units, and no
\* later repetition changes it; the end it emits is the latest end of the RF2
\* units of repetition N-1 and the latest end of all its units; start <= end.
C21_EarliestLatest ==
    \A s \in StreamIds :
        (streams[s].mode = "refresh" /\ streams[s].num_refresh_pairs >= 1) =>
            LET st == streams[s]
                N  == st.num_refresh_pairs
            IN /\ st.start_time # None =>
                     /\ st.start_time = Min(Starts(UnitsOf(st, 0, 1)))
                     /\ st.start_time = Min(Starts(st.unit_times))
               /\ st.pc \in {"finalise", "done"} =>
                     /\ st.start_time # None
                     /\ st.end_time = Max(Ends(UnitsOf(st, N - 1, 2)))
                     /\ st.end_time = Max(Ends(st.unit_times))
                     /\ st.start_time <= st.end_time
               /\ (st.pc = "done" /\ ~Drained) => SampleOf(st) # {}

C21_Witness ==
    \E s \in StreamIds :
        /\ streams[s].mode = "refresh"
        /\ streams[s].num_refresh_pairs = 2
        /\ streams[s].pc = "done"
        /\ SampleOf(streams[s]) # {}
        /\ Min(Starts(UnitsOf(streams[s], 1, 1))) > streams[s].start_time
        /\ Max(Ends(UnitsOf(streams[s], 0, 2))) < streams[s].end_time

\* C22: the units of a refresh function run at the same time, one per
\* replica, while the stream waits for them in that function's join; a unit
\* runs only there, so RF2 of repetition i+1 has been started only when every
\* unit of RF1 and of RF2 of repetition i has completed.
C22_NoOverlap ==
    \A s \in DOMAIN units :
        LET st == streams[s]
        IN /\ \A r \in Replicas :
                 units[s][r].pc = "running" =>
                     /\ st.pc = (IF units[s][r].target = 1 THEN "rf1_join" ELSE "rf2_join")
                     /\ st.started # <<>>
                     /\ st.started[Len(st.started)] = <<st.pair, units[s][r].target>>
           /\ st.pc \in {"rf1_join", "rf2_join"} =>
                 \A r \in Replicas :
                     /\ units[s][r].pc # "none"
                     /\ units[s][r].target = (IF st.pc = "rf1_join" THEN 1 ELSE 2)
           /\ \A j \in 1 .. Len(st.started) :
                 (st.started[j][2] = 2 /\ st.started[j][1] >= 1) =>
                     \A r \in Replicas, f \in 1 .. 2 :
                         <<st.started[j][1] - 1, f, r>> \in st.completed

C22_Witness ==
    \E s \in DOMAIN units :
        /\ streams[s].mode = "refresh"
        /\ streams[s].pair = 1
        /\ streams[s].pc = "rf2_join"
        /\ \A r \in Replicas : units[s][r].pc = "running" /\ units[s][r].target = 2
        /\ Len(streams[s].started) = 4

\* C25: every unit that has completed has put one record, with start <= end;
\* every _run_refresh_function_1/_2 call has read as many records as it
\* started units, and those are the records of its own units; the queue is
\* empty whenever the stream is outside such a call.
C25_OwnRecords ==
    \A s \in DOMAIN units :
        LET st    == streams[s]
            queue == refresh_time_queue[s]
        IN /\ Cardinality(st.unit_times) = Cardinality(st.completed)
           /\ \A u \in st.unit_times :
                 /\ <<u.pair, u.f, u.replica>> \in st.completed
                 /\ u.start <= u.end
           /\ Cardinality(st.unit_times) =
                 Len(queue) + Len(st.times) + NumReplicas * Len(st.read)
           /\ \A j \in 1 .. Len(st.read) :
                 LET rd == st.read[j]
                 IN /\ rd.count = NumReplicas
                    /\ Cardinality(UnitsOf(st, rd.pair, rd.f)) = NumReplicas
                    /\ rd.times =
                          {[start |-> u.start, end |-> u.end] : u \in UnitsOf(st, rd.pair, rd.f)}
           /\ st.pc \notin {"rf1_join", "rf1_get", "rf2_join", "rf2_get"} => queue = <<>>

C25_Witness ==
    \E s \in DOMAIN units :
        /\ streams[s].mode = "refresh"
        /\ streams[s].pc = "done"
        /\ Len(streams[s].read) = 4
        /\ refresh_time_queue[s] = <<>>

\* C26: a refresh stream of N >= 2 repetitions emits as refresh_times the
\* durations of RF1 and RF2 of repetition N-1, the latest end minus the
\* earliest start of that function's units, whatever the earlier repetitions
\* took.
C26_Duration(us) == Max(Ends(us)) - Min(Starts(us))

C26_LastRepetition ==
    \A s \in StreamIds :
        ( /\ streams[s].mode = "refresh"
          /\ streams[s].num_refresh_pairs >= 2
          /\ streams[s].pc \in {"finalise", "done"} ) =>
            LET st == streams[s]
                N  == st.num_refresh_pairs
            IN /\ st.refresh_times[0] = C26_Duration(UnitsOf(st, N - 1, 1))
               /\ st.refresh_times[1] = C26_Duration(UnitsOf(st, N - 1, 2))
               /\ (st.pc = "done" /\ ~Drained) =>
                     \E j \in QueueIndex :
                         /\ timer_queue[j].mode = "refresh"
                         /\ timer_queue[j].ri = st.refresh_times

C26_Witness ==
    \E s \in StreamIds :
        /\ streams[s].mode = "refresh"
        /\ streams[s].num_refresh_pairs = 2
        /\ streams[s].pc = "done"
        /\ \E j \in QueueIndex : timer_queue[j].mode = "refresh"
        /\ C26_Duration(UnitsOf(streams[s], 0, 1)) # C26_Duration(UnitsOf(streams[s], 1, 1))
        /\ C26_Duration(UnitsOf(streams[s], 0, 2)) # C26_Duration(UnitsOf(streams[s], 1, 2))

\* C23: when a stream has put its sample on timer_queue, every cursor and
\* every connection of the stream is closed, and none was open at the put;
\* a refresh unit that has ended normally has closed every connection and
\* every cursor it opened.
C23_ClosedAtPut ==
    /\ \A s \in StreamIds :
          emitted[s] >= 1 =>
              /\ streams[s].open_at_put = 0
              /\ \A r \in Replicas :
                    /\ streams[s].connections[r]._connection = None
                    /\ streams[s].cursors[r].closed
    /\ \A s \in DOMAIN units :
          \A r \in Replicas :
              units[s][r].pc = "done" =>
                  LET h == units[s][r].handles
                  IN /\ Len(h.connections) = (IF units[s][r].target = 1 THEN 2 ELSE 1)
                     /\ Len(h.cursors) = Len(h.connections)
                     /\ \A j \in 1 .. Len(h.connections) :
                           h.connections[j]._connection = None
                     /\ \A j \in 1 .. Len(h.cursors) : h.cursors[j].closed

C23_Witness ==
    /\ \E s \in ForkedStreams :
          /\ emitted[s] = 1
          /\ streams[s].pc = "done"
          /\ streams[s].open_at_put = 0
    /\ emitted[PowerStream] = 1
    /\ \E s \in DOMAIN units :
          \E r \in Replicas : units[s][r].pc = "done" /\ units[s][r].target = 1

\* C24: when no database call raises, the run (of a power stream that has
\* its refresh pair) reaches the end of get_results with the metrics
\* returned.
C24_Terminates ==
    streams[PowerStream].num_refresh_pairs >= 1 => <>(mainpc = "returned")

\* what holds of such a run: when the power stream has a refresh pair the
\* power test returns, every process is joined and get_results is called;
\* the run ends, and with a throughput stream it ends by get_results raising
C24_ReachesGetResults ==
    streams[PowerStream].num_refresh_pairs >= 1 => <>(mainpc = "get_results")
C24_Ends == <>(mainpc \in {"returned", "raised", "crashed"})
C24_EndsByRaising == [](n_query_streams >= 1 => mainpc # "returned")

====
